---- MODULE Spec2Model ----
(***************************************************************************)
(* A model of autocrew.py: the command-line orchestration that parses the *)
(* arguments, applies -c configuration parameters, truncates the overall  *)
(* goal, generates candidate scripts, optionally runs and ranks them, and *)
(* exits with a status code.                                              *)
(*                                                                         *)
(* Strings are sequences over Alphabet.  The AutoCrew object of core.py   *)
(* is outside this file: each of its methods is an action whose outcome   *)
(* (raise, or the value returned) is drawn from a small set, and every    *)
(* invocation is appended to `calls` with the arguments it was given.     *)
(***************************************************************************)
EXTENDS Integers, Sequences, FiniteSets, TLC

\* ---- bounds ----
MaxGoalLen == 2     \* longest overall goal typed by the user
MaxPaths   == 2     \* most csv paths an AutoCrew method returns
MaxCount   == 2     \* largest integer typed for -m or at its prompt
MaxTrunc   == 2     \* largest truncation length found in config.ini

\* ---- program constants ----
DefaultTruncation == 40   \* fallback=40 of config.getint

Alphabet == {"a", "b"}

Min(x, y) == IF x <= y THEN x ELSE y
Max(x, y) == IF x >= y THEN x ELSE y

Strings(n) == UNION { [1..k -> Alphabet] : k \in 0..n }

\* The goals a user can give; <<>> stands for a missing or empty positional
\* argument (the code only tests `not args.overall_goal`).
Goals == Strings(MaxGoalLen)

\* A value found in config.ini or given by -c: text that int() accepts
\* (int = TRUE, val its value) or text that it rejects.
IntText(n) == [int |-> TRUE, val |-> n]
BadText == [int |-> FALSE, val |-> 0]
TruncTexts == { IntText(n) : n \in (0 - 1)..MaxTrunc } \cup {BadText}

TruncKey == "CREWAI_SCRIPTS.overall_goal_truncation_for_filenames"
EndpointKey == "BASIC.llm_endpoint"

\* config.ini on disk: the keys it holds and their text.  The endpoint is
\* always present; the truncation key may be missing.
ConfigFiles ==
    { [k \in {EndpointKey} |-> BadText] } \cup
    { [k \in {EndpointKey, TruncKey} |-> IF k = TruncKey THEN t ELSE BadText] :
        t \in TruncTexts }

\* One -c argument: SECTION.KEY=VALUE, or text without the '.' or the '='.
OverrideLen == IntText(1)
ConfigParams ==
    { [ok |-> TRUE, key |-> TruncKey, value |-> OverrideLen],
      [ok |-> TRUE, key |-> EndpointKey, value |-> BadText],
      [ok |-> FALSE, key |-> EndpointKey, value |-> BadText] }

\* args.c: None (modelled <<>>, equally falsy) or the list built by append.
CLists == {<<>>} \cup { <<p>> : p \in ConfigParams }

\* The text given to -m, or typed at the prompt of positive_int.
CountTexts == { IntText(n) : n \in (0 - 1)..MaxCount } \cup {BadText}

\* ---- pure functions ----

\* A slice that keeps one character too many.
truncate_off_by_one(overall_goal, max_length) ==
    SubSeq(overall_goal, 1, Min(Max(max_length, 0) + 1, Len(overall_goal)))

\* overall_goal[:max_length]
truncate_overall_goal(overall_goal, max_length) ==
    SubSeq(overall_goal, 1,
           IF max_length >= 0
           THEN Min(max_length, Len(overall_goal))
           ELSE Max(Len(overall_goal) + max_length, 0))

IsPrefix(s, t) == Len(s) <= Len(t) /\ s = SubSeq(t, 1, Len(s))

\* parse_config_parameters: the dictionary, or "error" for a bad parameter.
RECURSIVE parse_config_parameters(_)
parse_config_parameters(config_params) ==
    IF config_params = <<>> THEN [ok |-> TRUE, dict |-> <<>>]
    ELSE LET p == Head(config_params)
             rest == parse_config_parameters(Tail(config_params))
         IN IF ~p.ok \/ ~rest.ok THEN [ok |-> FALSE, dict |-> <<>>]
            ELSE [ok |-> TRUE, dict |-> <<p>> \o rest.dict]

\* The ConfigParser after config.read('config.ini') and the config.set calls.
RECURSIVE SetAll(_, _)
SetAll(config, dict) ==
    IF dict = <<>> THEN config
    ELSE LET p == Head(dict)
             c2 == [k \in DOMAIN config \cup {p.key} |->
                       IF k = p.key THEN p.value ELSE config[k]]
         IN SetAll(c2, Tail(dict))

\* What update_config_file_with_params leaves in config.ini.
update_config_file_with_params(file, config_dict, write_to_file) ==
    IF write_to_file THEN SetAll(file, config_dict) ELSE file

\* 1 if not args.m else args.m
num_scripts_to_generate(m) == IF m = 0 THEN 1 ELSE m

\* any([args.c, args.h, args.d, args.u])
no_script_generation_params(a) == a.c # <<>> \/ a.h \/ a.d \/ a.u

PathLists == { [i \in 1..k |-> i] : k \in 0..MaxPaths }

VARIABLES
    pc,                      \* position in main()
    args,                    \* the argparse namespace
    latest_newer,            \* check_latest_version found a newer release
    configFile,              \* config.ini on disk
    max_length,              \* local of main
    truncated_overall_goal,  \* local of main
    csv_file_paths,          \* candidate paths held by main / handle_ranking
    calls,                   \* invocations made on the AutoCrew object
    rankingReport,           \* a ranking report for the goal exists on disk
    exit_code                \* status given to sys.exit, once pc = "exited"

vars == <<pc, args, latest_newer, configFile, max_length,
          truncated_overall_goal, csv_file_paths, calls, rankingReport,
          exit_code>>

NoArgs == [a |-> FALSE, c |-> <<>>, d |-> FALSE, h |-> FALSE, m |-> 0,
           r |-> FALSE, u |-> FALSE, v |-> FALSE, w |-> FALSE,
           overall_goal |-> <<>>]

Init ==
    /\ pc = "start"
    /\ args = NoArgs
    /\ latest_newer = FALSE
    /\ configFile \in ConfigFiles
    /\ max_length = 0
    /\ truncated_overall_goal = <<>>
    /\ csv_file_paths = <<>>
    /\ calls = <<>>
    /\ rankingReport \in BOOLEAN
    /\ exit_code = 0

\* sys.exit(code)
Exit(code) == pc' = "exited" /\ exit_code' = code

\* One invocation: the function, the arguments it was given, whether it
\* raised an Exception and, if not, the list of paths it returned.
Call(fn, goal, count, paths, verbose, raised, result) ==
    [fn |-> fn, goal |-> goal, count |-> count, paths |-> paths,
     verbose |-> verbose, raised |-> raised, result |-> result]

\* The exception is logged and the run goes on to handle_ranking.
GenerationExcept_swallow == pc' = "handle_ranking" /\ UNCHANGED exit_code

\* generate_and_run_scripts, except Exception: log and sys.exit(1).
GenerationExcept == Exit(1)

\* The exception is logged and the next statement of the try block runs.
RankingExcept_continue == pc' = "save_ranking_output" /\ UNCHANGED exit_code

\* The exception is logged and the evaluator is asked again.
RankingExcept_retry == pc' = "rank_crews" /\ UNCHANGED exit_code

\* handle_ranking, except Exception: log and sys.exit(1).
RankingExcept == Exit(1)

\* The error is logged and the empty list is ranked all the same.
NoScriptsExit_fallthrough == pc' = "rank_crews" /\ UNCHANGED exit_code

\* handle_ranking, "No existing scripts found to rank.": sys.exit(1), a
\* SystemExit that except Exception does not catch.
NoScriptsExit == Exit(1)

\* main, no command-line parameters: run welcome.py and exit.
Welcome ==
    /\ pc = "start"
    /\ Exit(0)
    /\ UNCHANGED <<args, latest_newer, configFile, max_length,
                   truncated_overall_goal, csv_file_paths, calls,
                   rankingReport>>

\* parse_arguments, with positive_int applied to the text given to -m.
\* An integer <= 0 raises ArgumentTypeError, which argparse reports with
\* status 2; text that int() rejects sends positive_int to its prompt.
ParseArguments ==
    /\ pc = "start"
    /\ \E a, d, h, r, u, v, w, mgiven \in BOOLEAN, c \in CLists, g \in Goals,
          mtext \in CountTexts :
         LET parsed == [a |-> a, c |-> c, d |-> d, h |-> h, m |-> 0, r |-> r,
                        u |-> u, v |-> v, w |-> w, overall_goal |-> g]
         IN IF ~mgiven
            THEN /\ args' = parsed
                 /\ pc' = "check_latest_version"
                 /\ UNCHANGED exit_code
            ELSE IF ~mtext.int
            THEN /\ args' = parsed
                 /\ pc' = "positive_int"
                 /\ UNCHANGED exit_code
            ELSE IF mtext.val <= 0
            THEN /\ args' = parsed
                 /\ Exit(2)
            ELSE /\ args' = [parsed EXCEPT !.m = mtext.val]
                 /\ pc' = "check_latest_version"
                 /\ UNCHANGED exit_code
    /\ UNCHANGED <<latest_newer, configFile, max_length,
                   truncated_overall_goal, csv_file_paths, calls,
                   rankingReport>>

\* positive_int, the except ValueError branch: return int(input()) for the
\* first line that int() accepts.
positive_int ==
    /\ pc = "positive_int"
    /\ \E line \in CountTexts :
         IF line.int
         THEN /\ args' = [args EXCEPT !.m = line.val]
              /\ pc' = "check_latest_version"
         ELSE UNCHANGED <<args, pc>>
    /\ UNCHANGED <<latest_newer, configFile, max_length,
                   truncated_overall_goal, csv_file_paths, calls,
                   rankingReport, exit_code>>

\* check_latest_version: every failure is caught inside it.
check_latest_version ==
    /\ pc = "check_latest_version"
    /\ latest_newer' \in BOOLEAN
    /\ pc' = "handle_help"
    /\ UNCHANGED <<args, configFile, max_length, truncated_overall_goal,
                   csv_file_paths, calls, rankingReport, exit_code>>

handle_help ==
    /\ pc = "handle_help"
    /\ IF args.h THEN Exit(0)
       ELSE pc' = "handle_install_dependencies" /\ UNCHANGED exit_code
    /\ UNCHANGED <<args, latest_newer, configFile, max_length,
                   truncated_overall_goal, csv_file_paths, calls,
                   rankingReport>>

\* handle_install_dependencies: install_dependencies raises (caught by the
\* except of main, exit 1) or returns (exit 0).
handle_install_dependencies ==
    /\ pc = "handle_install_dependencies"
    /\ IF args.d THEN \E raised \in BOOLEAN : Exit(IF raised THEN 1 ELSE 0)
       ELSE pc' = "handle_upgrade" /\ UNCHANGED exit_code
    /\ UNCHANGED <<args, latest_newer, configFile, max_length,
                   truncated_overall_goal, csv_file_paths, calls,
                   rankingReport>>

\* handle_upgrade: upgrade_autocrew raises RuntimeError or exits 0 itself;
\* update_config_file rewrites config.ini with the previous settings put
\* back, so the keys config.ini held keep their text.
handle_upgrade ==
    /\ pc = "handle_upgrade"
    /\ IF args.u
       THEN IF latest_newer
            THEN \E raised \in BOOLEAN : Exit(IF raised THEN 1 ELSE 0)
            ELSE Exit(0)
       ELSE pc' = "handle_config_update" /\ UNCHANGED exit_code
    /\ UNCHANGED <<args, latest_newer, configFile, max_length,
                   truncated_overall_goal, csv_file_paths, calls,
                   rankingReport>>

\* handle_config_update: an ill-formed parameter raises ArgumentTypeError,
\* caught by the except of main.
handle_config_update ==
    /\ pc = "handle_config_update"
    /\ IF args.c = <<>>
       THEN pc' = "AutoCrew" /\ UNCHANGED <<configFile, exit_code>>
       ELSE LET parsed == parse_config_parameters(args.c)
            IN IF ~parsed.ok
               THEN Exit(1) /\ UNCHANGED configFile
               ELSE /\ configFile' = update_config_file_with_params(
                                         configFile, parsed.dict, args.w)
                    /\ pc' = "AutoCrew"
                    /\ UNCHANGED exit_code
    /\ UNCHANGED <<args, latest_newer, max_length, truncated_overall_goal,
                   csv_file_paths, calls, rankingReport>>

\* main, lines 395-405: construct AutoCrew (it may raise), ask for the goal
\* when none was given, read the truncation length and truncate the goal.
\* getint raises ValueError on text that is not an integer.
TruncateGoal ==
    /\ pc = "AutoCrew"
    /\ \E raised \in BOOLEAN, typed \in Goals :
         LET goal == IF args.overall_goal = <<>> THEN typed
                     ELSE args.overall_goal
         IN IF raised
            THEN Exit(1) /\ UNCHANGED <<args, max_length,
                                        truncated_overall_goal>>
            ELSE /\ args' = [args EXCEPT !.overall_goal = goal]
                 /\ IF TruncKey \notin DOMAIN configFile
                    THEN /\ max_length' = DefaultTruncation
                         /\ truncated_overall_goal' =
                              truncate_overall_goal(goal, DefaultTruncation)
                         /\ pc' = "generate_and_run_scripts"
                         /\ UNCHANGED exit_code
                    ELSE IF ~configFile[TruncKey].int
                    THEN Exit(1) /\ UNCHANGED <<max_length,
                                               truncated_overall_goal>>
                    ELSE /\ max_length' = configFile[TruncKey].val
                         /\ truncated_overall_goal' =
                              truncate_overall_goal(goal,
                                                    configFile[TruncKey].val)
                         /\ pc' = "generate_and_run_scripts"
                         /\ UNCHANGED exit_code
    /\ UNCHANGED <<latest_newer, configFile, csv_file_paths, calls,
                   rankingReport>>

\* generate_and_run_scripts up to the return of generate_scripts.
generate_scripts ==
    /\ pc = "generate_and_run_scripts"
    /\ IF no_script_generation_params(args)
       THEN /\ csv_file_paths' = <<>>
            /\ pc' = "handle_ranking"
            /\ UNCHANGED <<calls, exit_code>>
       ELSE \/ /\ calls' = Append(calls,
                      Call("generate_scripts", truncated_overall_goal,
                           num_scripts_to_generate(args.m), <<>>, FALSE,
                           TRUE, <<>>))
               /\ GenerationExcept
               /\ UNCHANGED csv_file_paths
            \/ \E made \in PathLists :
                 /\ calls' = Append(calls,
                      Call("generate_scripts", truncated_overall_goal,
                           num_scripts_to_generate(args.m), <<>>, FALSE,
                           FALSE, made))
                 /\ csv_file_paths' = made
                 /\ pc' = IF args.a THEN "run_scripts" ELSE "handle_ranking"
                 /\ UNCHANGED exit_code
    /\ UNCHANGED <<args, latest_newer, configFile, max_length,
                   truncated_overall_goal, rankingReport>>

\* generate_and_run_scripts, if args.a: subprocess.run on every script.
run_scripts ==
    /\ pc = "run_scripts"
    /\ calls' = Append(calls, Call("subprocess.run", <<>>, 0,
                                   csv_file_paths, FALSE, FALSE, <<>>))
    /\ pc' = "handle_ranking"
    /\ UNCHANGED <<args, latest_newer, configFile, max_length,
                   truncated_overall_goal, csv_file_paths, rankingReport,
                   exit_code>>

\* handle_ranking up to rank_crews: nothing without -r; discovery when the
\* list is empty; sys.exit(1) (a SystemExit, not caught by except Exception)
\* when it is still empty.
get_existing_scripts ==
    /\ pc = "handle_ranking"
    /\ IF ~args.r
       THEN /\ pc' = "finish"
            /\ UNCHANGED <<csv_file_paths, calls, exit_code>>
       ELSE IF csv_file_paths # <<>>
       THEN /\ pc' = "rank_crews"
            /\ UNCHANGED <<csv_file_paths, calls, exit_code>>
       ELSE \/ /\ calls' = Append(calls,
                      Call("get_existing_scripts", truncated_overall_goal,
                           0, <<>>, FALSE, TRUE, <<>>))
               /\ RankingExcept
               /\ UNCHANGED csv_file_paths
            \/ \E found \in PathLists :
                 /\ calls' = Append(calls,
                      Call("get_existing_scripts", truncated_overall_goal,
                           0, <<>>, FALSE, FALSE, found))
                 /\ csv_file_paths' = found
                 /\ IF found = <<>> THEN NoScriptsExit
                    ELSE pc' = "rank_crews" /\ UNCHANGED exit_code
    /\ UNCHANGED <<args, latest_newer, configFile, max_length,
                   truncated_overall_goal, rankingReport>>

\* handle_ranking: autocrew.rank_crews(csv_file_paths, args.overall_goal,
\* args.v) raises or returns.
rank_crews ==
    /\ pc = "rank_crews"
    /\ \E raised \in BOOLEAN :
         /\ calls' = Append(calls, Call("rank_crews", args.overall_goal, 0,
                                        csv_file_paths, args.v, raised, <<>>))
         /\ IF raised THEN RankingExcept
            ELSE pc' = "save_ranking_output" /\ UNCHANGED exit_code
    /\ UNCHANGED <<args, latest_newer, configFile, max_length,
                   truncated_overall_goal, csv_file_paths, rankingReport>>

\* handle_ranking: autocrew.save_ranking_output(ranked_crews,
\* truncated_overall_goal) raises or writes the report.
save_ranking_output ==
    /\ pc = "save_ranking_output"
    /\ \E raised \in BOOLEAN :
         /\ calls' = Append(calls, Call("save_ranking_output",
                                        truncated_overall_goal, 0, <<>>, FALSE,
                                        raised, <<>>))
         /\ IF raised THEN RankingExcept /\ UNCHANGED rankingReport
            ELSE /\ rankingReport' = TRUE
                 /\ pc' = "finish"
                 /\ UNCHANGED exit_code
    /\ UNCHANGED <<args, latest_newer, configFile, max_length,
                   truncated_overall_goal, csv_file_paths>>

\* main: "AutoCrew script finished successfully", sys.exit(0).
Finish ==
    /\ pc = "finish"
    /\ Exit(0)
    /\ UNCHANGED <<args, latest_newer, configFile, max_length,
                   truncated_overall_goal, csv_file_paths, calls,
                   rankingReport>>

Next ==
    \/ Welcome
    \/ ParseArguments
    \/ positive_int
    \/ check_latest_version
    \/ handle_help
    \/ handle_install_dependencies
    \/ handle_upgrade
    \/ handle_config_update
    \/ TruncateGoal
    \/ generate_scripts
    \/ run_scripts
    \/ get_existing_scripts
    \/ rank_crews
    \/ save_ranking_output
    \/ Finish

Spec == Init /\ [][Next]_vars

\* ---- properties ----

CallsOf(fn) == { i \in DOMAIN calls : calls[i].fn = fn }

AutoCrewCalls == {"generate_scripts", "get_existing_scripts", "rank_crews",
                  "save_ranking_output"}

SomeCallRaised ==
    \E i \in DOMAIN calls : calls[i].fn \in AutoCrewCalls /\ calls[i].raised

\* The positions of main at which the goal has been truncated.
PostTruncation == {"generate_and_run_scripts", "run_scripts",
                   "handle_ranking", "rank_crews", "save_ranking_output",
                   "finish"}

\* C1: a run in which generate_scripts, get_existing_scripts, rank_crews or
\* save_ranking_output raised ends with exit code 1 and never with 0; a run
\* that reaches the end of main exits with code 0.
C1_ExitCode ==
    [][ /\ (pc' = "exited" /\ SomeCallRaised') => exit_code' = 1
        /\ (pc = "finish" /\ pc' # pc) =>
               (pc' = "exited" /\ exit_code' = 0 /\ ~SomeCallRaised') ]_vars

C1_Witness ==
    /\ pc = "exited"
    /\ exit_code = 1
    /\ \E i \in CallsOf("generate_scripts") : calls[i].raised

\* C2: rank_crews is only ever given a non-empty list of paths; when the
\* list is empty after generation and discovery also returns none, neither
\* rank_crews nor save_ranking_output is invoked and the exit code is 1.
C2_NonEmptyRanking ==
    /\ \A i \in CallsOf("rank_crews") : calls[i].paths # <<>>
    /\ \A i \in CallsOf("get_existing_scripts") :
         (~calls[i].raised /\ calls[i].result = <<>>) =>
             /\ pc = "exited"
             /\ exit_code = 1
             /\ CallsOf("rank_crews") = {}
             /\ CallsOf("save_ranking_output") = {}

C2_Witness ==
    /\ pc = "exited"
    /\ args.r
    /\ \E i \in CallsOf("get_existing_scripts") :
         ~calls[i].raised /\ calls[i].result = <<>>

\* C3: a run in which generate_scripts was invoked and yielded no paths
\* (it raised, or it returned an empty list) exits with code 1.
C3_ZeroCandidatesFail ==
    (pc = "exited" /\ \E i \in CallsOf("generate_scripts") :
                          calls[i].raised \/ calls[i].result = <<>>)
        => exit_code = 1

\* C4: rank_crews is invoked only after generation (and the running of the
\* scripts) is over, save_ranking_output only after rank_crews returned;
\* when rank_crews raises it is the last call of the run, which has exited.
C4_StageOrder ==
    /\ \A i \in CallsOf("rank_crews") :
         /\ \A j \in CallsOf("generate_scripts") \cup
                     CallsOf("subprocess.run") : j < i
         /\ pc \notin {"generate_and_run_scripts", "run_scripts"}
         /\ calls[i].raised => (i = Len(calls) /\ pc = "exited")
    /\ \A j \in CallsOf("save_ranking_output") :
         \E i \in CallsOf("rank_crews") : i < j /\ ~calls[i].raised

C4_Witness ==
    /\ pc = "exited"
    /\ CallsOf("generate_scripts") # {}
    /\ CallsOf("subprocess.run") # {}
    /\ \E i \in CallsOf("rank_crews") : calls[i].raised

\* C5: when the list given to rank_crews came from get_existing_scripts,
\* generate_scripts was not invoked in that run.
C5_NoRegeneration ==
    (CallsOf("get_existing_scripts") # {} /\ CallsOf("rank_crews") # {})
        => CallsOf("generate_scripts") = {}

\* C6: the goal given to generate_scripts, and the goal given to rank_crews,
\* is the full overall goal of the user.
C6_FullGoal ==
    \A i \in CallsOf("generate_scripts") \cup CallsOf("rank_crews") :
        calls[i].goal = args.overall_goal

\* C7 as stated: the truncated goal is a prefix of the goal, its length is
\* at most max_length, and it is the goal when the goal is not longer than
\* max_length, for every max_length that config.ini can hold.
C7_LengthBounded ==
    pc \in PostTruncation =>
        /\ IsPrefix(truncated_overall_goal, args.overall_goal)
        /\ Len(truncated_overall_goal) <= max_length
        /\ Len(args.overall_goal) <= max_length =>
               truncated_overall_goal = args.overall_goal

\* C7 as amended: the truncated goal is always a prefix of the goal; for
\* max_length >= 0 its length is at most max_length and it is the goal when
\* the goal is not longer than max_length; for max_length < 0 it is the goal
\* without its last -max_length characters.
C7_Truncation ==
    pc \in PostTruncation =>
        /\ IsPrefix(truncated_overall_goal, args.overall_goal)
        /\ max_length >= 0 =>
             /\ Len(truncated_overall_goal) <= max_length
             /\ Len(args.overall_goal) <= max_length =>
                    truncated_overall_goal = args.overall_goal
        /\ max_length < 0 =>
             Len(truncated_overall_goal) =
                 Max(Len(args.overall_goal) + max_length, 0)

C7_Witness ==
    /\ pc \in PostTruncation
    /\ max_length >= 1
    /\ Len(args.overall_goal) > max_length
    /\ Len(truncated_overall_goal) = max_length

\* C8: the count given to generate_scripts is an integer >= 1.
C8_CountPositive ==
    \A i \in CallsOf("generate_scripts") : calls[i].count >= 1

\* C9: with -c and without -w, config.ini on disk is never changed, and the
\* truncation length given by -c is the one the run truncates the goal with.
C9_TemporaryOverride ==
    [][ /\ ~args.w => configFile' = configFile
        /\ ( /\ pc = "AutoCrew"
             /\ pc' \in PostTruncation
             /\ ~args.w
             /\ \E k \in DOMAIN args.c :
                   args.c[k].ok /\ args.c[k].key = TruncKey )
           => max_length' = OverrideLen.val ]_vars

====
